---- MODULE Spec2Model ----
(***************************************************************************)
(* Model of the trading back end (index.js, kept as src/unnamed/part_000). *)
(*                                                                         *)
(* One Node.js process, one event loop: every handler below runs to        *)
(* completion before the next one starts, so each handler is one action.   *)
(*                                                                         *)
(* Numbers.  Prices are counted in hundredths (10025 is 100.25).  JS       *)
(* doubles are replaced by fixed point: the EMA and the RSI averages are   *)
(* kept in units of 1/Scale of a hundredth and divisions truncate.  The    *)
(* RSI is kept in hundredths of a point, confidence in hundredths.         *)
(* JS arrays are 0-based: an index named i below is the JS index, and the  *)
(* element it names is seq[i + 1].                                         *)
(*                                                                         *)
(* The ws library and the Binance feed are the environment: a socket is    *)
(* CONNECTING, OPEN, CLOSING or CLOSED, emits 'error' before it closes     *)
(* when it fails, and emits 'close' exactly once.                          *)
(***************************************************************************)
EXTENDS Integers, Sequences, FiniteSets, TLC

VARIABLES
  ohlc,           \* let ohlc = []            (line 20)
  lastSignal,     \* let lastSignal = null    (line 21)
  sockets,        \* every WebSocket connectBinance has created, oldest first
  binanceSocket,  \* let binanceSocket        (line 132): index into sockets
  timers,         \* pending setTimeout(connectBinance, ...) calls, oldest first
  clients,        \* subscriber sessions of wssServer: readyState of each
  inbox,          \* what each subscriber session has been sent, in order
  response,       \* the last HTTP response of POST /push-ohlc
  clock,          \* frames the feed has delivered so far (also Date.now())
  published,      \* envelopes broadcast() has serialized so far, in order
  appended,       \* candles ohlc.push() has added since the last overwrite
  lastEvent       \* the handler that ran last, with its input

vars == <<ohlc, lastSignal, sockets, binanceSocket, timers, clients, inbox,
          response, clock, published, appended, lastEvent>>

(***************************************************************************)
(* Bounds of the model.                                                    *)
(***************************************************************************)
MaxFrames == 2        \* frames delivered by the feed in a run of Spec
MaxAppends == 502     \* frames delivered in a run of FifoSpec
MaxClients == 2       \* subscriber sessions
MaxConnections == 3   \* calls of connectBinance

(***************************************************************************)
(* Program constants.                                                      *)
(***************************************************************************)
AppendCap == 500        \* if (ohlc.length > 500) ohlc.shift()
OverwriteKeep == 500    \* arr.slice(-500)
ReconnectDelay == 3000  \* setTimeout(connectBinance, 3000)
emaShortLen == 9
emaLongLen == 21
rsiPeriod == 14
rsiBuy == 45
rsiSell == 65
SYMBOL == "btcusdt"

Scale == 10 * 10 * 10   \* fixed-point resolution below one hundredth

Null == [null |-> TRUE]  \* JS null

Clients == 1..MaxClients

Min(a, b) == IF a < b THEN a ELSE b
Abs(a) == IF a < 0 THEN 0 - a ELSE a

\* arr.slice(-n): the last n elements, or all of them
SliceLast(arr, n) ==
  IF Len(arr) <= n THEN arr ELSE SubSeq(arr, Len(arr) - n + 1, Len(arr))

(***************************************************************************)
(* Indicators.                                                             *)
(***************************************************************************)
\* prev = values[i] * k + prev * (1 - k), with k = 2 / (length + 1)
emaStep(value, prev, length) ==
  (value * Scale * 2 + prev * (length - 1)) \div (length + 1)

\* out[lo..hi] of the loop of lines 30-33, given out[lo - 1] = prev.  The
\* range is halved so that the evaluation depth stays logarithmic; the
\* values are those of the left-to-right loop.
RECURSIVE emaRange(_, _, _, _, _)
emaRange(values, length, lo, hi, prev) ==
  IF lo > hi THEN <<>>
  ELSE IF lo = hi THEN <<emaStep(values[lo + 1], prev, length)>>
  ELSE LET mid == (lo + hi) \div 2
           left == emaRange(values, length, lo, mid, prev)
       IN left \o emaRange(values, length, mid + 1, hi, left[Len(left)])

\* function ema(values, length): seed values[0], no undefined entries
ema(values, length) ==
  IF Len(values) = 0 THEN <<>>
  ELSE <<values[1] * Scale>>
         \o emaRange(values, length, 1, Len(values) - 1, values[1] * Scale)

\* 100 - 100 / (1 + avgGain / (avgLoss || 1e-8)), in hundredths of a point
rsiValue(avgGain, avgLoss) ==
  IF avgLoss = 0
  THEN IF avgGain = 0 THEN 0 ELSE 100 * 100
  ELSE LET q == (avgGain * 100) \div (avgGain + avgLoss)
           m == (avgGain * 100) % (avgGain + avgLoss)
       IN q * 100 + (m * 100) \div (avgGain + avgLoss)

\* deltas[j] = values[j + 1] - values[j], fixed point
delta(values, j) == (values[j + 2] - values[j + 1]) * Scale

RECURSIVE seedGain(_, _, _)
seedGain(values, j, acc) ==
  IF j >= rsiPeriod THEN acc
  ELSE seedGain(values, j + 1,
                IF delta(values, j) >= 0 THEN acc + delta(values, j) ELSE acc)

RECURSIVE seedLoss(_, _, _)
seedLoss(values, j, acc) ==
  IF j >= rsiPeriod THEN acc
  ELSE seedLoss(values, j + 1,
                IF delta(values, j) >= 0 THEN acc ELSE acc - delta(values, j))

\* lines 53-57: Wilder smoothing of the averages at index i
wilderStep(values, i, avg) ==
  LET d == delta(values, i - 1)
      g == IF d > 0 THEN d ELSE 0
      l == IF d < 0 THEN 0 - d ELSE 0
  IN [gain |-> (avg.gain * (rsiPeriod - 1) + g) \div rsiPeriod,
      loss |-> (avg.loss * (rsiPeriod - 1) + l) \div rsiPeriod]

\* the averages at indices lo..hi of the loop of lines 52-59, given those
\* at lo - 1 (halved like emaRange)
RECURSIVE wilderRange(_, _, _, _)
wilderRange(values, lo, hi, avg) ==
  IF lo > hi THEN <<>>
  ELSE IF lo = hi THEN <<wilderStep(values, lo, avg)>>
  ELSE LET mid == (lo + hi) \div 2
           left == wilderRange(values, lo, mid, avg)
       IN left \o wilderRange(values, mid + 1, hi, left[Len(left)])

\* a defined entry of the RSI series (a number, not null)
Num(v) == [null |-> FALSE, value |-> v]

\* faulty variant: the seed value is not stored, out[period] stays null
rsiSeedSkipped(values) ==
  IF Len(values) <= rsiPeriod THEN [j \in 1..Len(values) |-> Null]
  ELSE LET seed == [gain |-> seedGain(values, 0, 0) \div rsiPeriod,
                    loss |-> seedLoss(values, 0, 0) \div rsiPeriod]
           rest == wilderRange(values, rsiPeriod + 1, Len(values) - 1, seed)
       IN [j \in 1..(rsiPeriod + 1) |-> Null]
            \o [j \in 1..Len(rest) |->
                  Num(rsiValue(rest[j].gain, rest[j].loss))]

\* function rsi(values, period = 14): null first, then the seed average at
\* out[period], then Wilder smoothing
rsi(values) ==
  IF Len(values) <= rsiPeriod THEN [j \in 1..Len(values) |-> Null]
  ELSE LET seed == [gain |-> seedGain(values, 0, 0) \div rsiPeriod,
                    loss |-> seedLoss(values, 0, 0) \div rsiPeriod]
           rest == wilderRange(values, rsiPeriod + 1, Len(values) - 1, seed)
       IN [j \in 1..rsiPeriod |-> Null]
            \o <<Num(rsiValue(seed.gain, seed.loss))>>
            \o [j \in 1..Len(rest) |->
                  Num(rsiValue(rest[j].gain, rest[j].loss))]

\* Math.round of a value in hundredths
MathRound(h) == (h + 50) \div 100

\* +(x).toFixed(2) of a fixed-point value: the nearest hundredth
ToFixed2(x) == (x + Scale \div 2) \div Scale

(***************************************************************************)
(* analyzeAndSignal.                                                       *)
(***************************************************************************)
\* ohlcArr.map((d) => d.close) throws a TypeError on a null element
analyzeThrows(ohlcArr) == \E j \in 1..Len(ohlcArr) : ohlcArr[j] = Null

\* faulty variant: off by one, a last index equal to the long length is analysed
notEnoughDataStrict(i) == i < emaLongLen

\* the guard of line 85
notEnoughData(i) == i <= emaLongLen

\* line 91: Math.round(rsiArr[i] ?? 50), the RSI as a whole number
roundedRsi(rsiArr, i) ==
  MathRound(IF rsiArr[i + 1] = Null THEN 50 * 100 ELSE rsiArr[i + 1].value)

\* faulty variant: the BUY threshold is inclusive
buyGateInclusive(crossedUp, r) == crossedUp /\ r <= rsiBuy

\* the condition of line 94
buyGate(crossedUp, r) == crossedUp /\ r < rsiBuy

\* the condition of line 109
sellGate(crossedDown, r) == crossedDown /\ r > rsiSell

\* faulty variant: the SELL term (r - threshold) used for both sides
confidenceSwapped(distance) == Min(95, 60 - distance)

\* lines 98 and 104 (113 and 119): +Math.min(0.95, 0.6 + distance / 100)
\* .toFixed(2), in hundredths; distance is a whole number of RSI points
confidenceOf(distance) == Min(95, 60 + distance)

analyzeAndSignal(ohlcArr) ==
  LET closes == [j \in 1..Len(ohlcArr) |-> ohlcArr[j].close]
      i == Len(closes) - 1
  IN IF notEnoughData(i)
     THEN [signal |-> "HOLD", reason |-> <<"not enough data">>]
     ELSE
       LET emaS == ema(closes, emaShortLen)
           emaL == ema(closes, emaLongLen)
           rsiArr == rsi(closes)
           prev == i - 1
           crossedUp == emaS[prev + 1] <= emaL[prev + 1] /\ emaS[i + 1] > emaL[i + 1]
           crossedDown == emaS[prev + 1] >= emaL[prev + 1] /\ emaS[i + 1] < emaL[i + 1]
           r == roundedRsi(rsiArr, i)
           price == closes[i + 1]
           gap == IF Abs(emaS[i + 1] - emaL[i + 1]) = 0
                  THEN 100 * Scale
                  ELSE Abs(emaS[i + 1] - emaL[i + 1])
       IN IF buyGate(crossedUp, r)
          THEN [signal |-> "BUY",
                entry |-> price,
                stopLoss |-> ToFixed2(price * Scale - gap \div 2),
                takeProfit |-> ToFixed2(price * Scale + (3 * gap) \div 2),
                confidence |-> confidenceOf(rsiBuy - r),
                reason |-> <<"EMA up cross + RSI", r>>,
                price |-> price,
                rsi |-> r]
          ELSE IF sellGate(crossedDown, r)
          THEN [signal |-> "SELL",
                entry |-> price,
                stopLoss |-> ToFixed2(price * Scale + gap \div 2),
                takeProfit |-> ToFixed2(price * Scale - (3 * gap) \div 2),
                confidence |-> confidenceOf(r - rsiSell),
                reason |-> <<"EMA down cross + RSI", r>>,
                price |-> price,
                rsi |-> r]
          ELSE [signal |-> "HOLD",
                reason |-> <<"No crossover (RSI)", r>>,
                price |-> price,
                rsi |-> r]

(***************************************************************************)
(* Broadcast hub.                                                          *)
(***************************************************************************)
\* JSON.stringify({ type, data })
Envelope(type, data) == [type |-> type, data |-> data]

\* faulty variant: no readyState check, every session of wssServer.clients is sent to
broadcastAll(boxes, type, data) ==
  [c \in Clients |->
     IF clients[c] \in {"OPEN", "CLOSING"}
     THEN Append(boxes[c], Envelope(type, data))
     ELSE boxes[c]]

\* faulty variant: the envelope is put ahead of what the session was sent before
broadcastNewestFirst(boxes, type, data) ==
  [c \in Clients |->
     IF clients[c] = "OPEN" THEN <<Envelope(type, data)>> \o boxes[c]
     ELSE boxes[c]]

\* function broadcast(type, data): one send per client whose readyState is OPEN
broadcast(boxes, type, data) ==
  [c \in Clients |->
     IF clients[c] = "OPEN" THEN Append(boxes[c], Envelope(type, data))
     ELSE boxes[c]]

\* faulty variant: the status event is sent before the last signal
catchUpStatusFirst(sig) ==
  <<Envelope("status", "connected")>>
    \o (IF sig # Null THEN <<Envelope("signal", sig)>> ELSE <<>>)

\* if (lastSignal) ws.send(signal); ws.send(status): what a new session is sent
catchUp(sig) ==
  (IF sig # Null THEN <<Envelope("signal", sig)>> ELSE <<>>)
    \o <<Envelope("status", "connected")>>

\* wssServer.on("connection"); sessions are numbered in the order they connect
OnConnection(c) ==
  /\ clients[c] = "NONE"
  /\ \A d \in 1..(c - 1) : clients[d] # "NONE"
  /\ clients' = [clients EXCEPT ![c] = "OPEN"]
  /\ inbox' = [inbox EXCEPT ![c] = catchUp(lastSignal)]
  /\ lastEvent' = [op |-> "connection", client |-> c]
  /\ UNCHANGED <<ohlc, lastSignal, sockets, binanceSocket, timers, response,
                 clock, published, appended>>

\* the subscriber starts the closing handshake: it stays in wssServer.clients
ClientClosing(c) ==
  /\ clients[c] = "OPEN"
  /\ clients' = [clients EXCEPT ![c] = "CLOSING"]
  /\ lastEvent' = [op |-> "clientClosing", client |-> c]
  /\ UNCHANGED <<ohlc, lastSignal, sockets, binanceSocket, timers, inbox,
                 response, clock, published, appended>>

\* the subscriber's transport is gone: ws removes it from wssServer.clients
ClientClosed(c) ==
  /\ clients[c] \in {"OPEN", "CLOSING"}
  /\ clients' = [clients EXCEPT ![c] = "CLOSED"]
  /\ lastEvent' = [op |-> "clientClosed", client |-> c]
  /\ UNCHANGED <<ohlc, lastSignal, sockets, binanceSocket, timers, inbox,
                 response, clock, published, appended>>

(***************************************************************************)
(* Candle history.                                                         *)
(***************************************************************************)
\* faulty variant: the length check is missing, nothing is evicted
pushNoShift(arr, candle) == Append(arr, candle)

\* faulty variant: pop() for shift(): the newest candle is dropped, not the oldest
pushAndPop(arr, candle) ==
  LET pushed == Append(arr, candle)
  IN IF Len(pushed) > AppendCap THEN SubSeq(pushed, 1, AppendCap) ELSE pushed

\* ohlc.push(candle); if (ohlc.length > 500) ohlc.shift();
pushAndShift(arr, candle) ==
  LET pushed == Append(arr, candle)
  IN IF Len(pushed) > AppendCap THEN Tail(pushed) ELSE pushed

\* Array.isArray(req.body)
isArray(body) == body.isArray

\* faulty variant: the history is assigned before the payload is validated
PushOhlcClearsFirst(body) ==
  /\ lastEvent' = [op |-> "pushOhlc", body |-> body]
  /\ ohlc' = SliceLast(body.items, OverwriteKeep)
  /\ appended' = <<>>
  /\ response' = IF ~isArray(body)
                 THEN [status |-> 400, ok |-> FALSE, reason |-> "send array"]
                 ELSE [status |-> 200, ok |-> TRUE,
                       count |-> Len(SliceLast(body.items, OverwriteKeep))]
  /\ UNCHANGED <<lastSignal, sockets, binanceSocket, timers, clients, inbox,
                 clock, published>>

\* faulty variant: a valid overwrite also forgets the last signal
PushOhlcResetsSignal(body) ==
  /\ lastEvent' = [op |-> "pushOhlc", body |-> body]
  /\ IF ~isArray(body)
     THEN /\ response' = [status |-> 400, ok |-> FALSE, reason |-> "send array"]
          /\ UNCHANGED <<ohlc, appended, lastSignal>>
     ELSE /\ ohlc' = SliceLast(body.items, OverwriteKeep)
          /\ appended' = <<>>
          /\ lastSignal' = Null
          /\ response' = [status |-> 200, ok |-> TRUE,
                          count |-> Len(SliceLast(body.items, OverwriteKeep))]
  /\ UNCHANGED <<sockets, binanceSocket, timers, clients, inbox,
                 clock, published>>

\* app.post("/push-ohlc")
PushOhlc(body) ==
  /\ lastEvent' = [op |-> "pushOhlc", body |-> body]
  /\ IF ~isArray(body)
     THEN /\ response' = [status |-> 400, ok |-> FALSE, reason |-> "send array"]
          /\ UNCHANGED <<ohlc, appended>>
     ELSE /\ ohlc' = SliceLast(body.items, OverwriteKeep)
          /\ appended' = <<>>
          /\ response' = [status |-> 200, ok |-> TRUE,
                          count |-> Len(SliceLast(body.items, OverwriteKeep))]
  /\ UNCHANGED <<lastSignal, sockets, binanceSocket, timers, clients, inbox,
                 clock, published>>

(***************************************************************************)
(* Feed connector.                                                         *)
(***************************************************************************)
\* JSON.parse(msg.toString()) throws, or the parsed value is null and
\* data.k throws: both land in the catch of line 172
parseThrows(frame) == frame.kind \in {"garbage", "null"}

\* if (!data.k) return
noCandle(frame) == frame.kind = "nok"

\* faulty variant: a frame that cannot be used ends the connection
DiscardFrameTerminates(s, frame) ==
  /\ sockets' = [sockets EXCEPT ![s].state = "CLOSING"]
  /\ UNCHANGED <<ohlc, lastSignal, binanceSocket, timers, clients, inbox,
                 response, published, appended>>

\* the frame is dropped: return of line 146, or the catch of line 172 (logs)
DiscardFrame(s, frame) ==
  UNCHANGED <<ohlc, lastSignal, sockets, binanceSocket, timers, clients, inbox,
              response, published, appended>>

\* lines 147-171: price tick, and for a closed candle push, analysis, signal
HandleCandle(s, frame) ==
  LET candle == [t |-> frame.t, close |-> frame.c, isFinal |-> frame.x]
      price == [t |-> candle.t, close |-> candle.close]
      boxes1 == broadcast(inbox, "price", price)
      pub1 == Append(published, Envelope("price", price))
  IN /\ IF ~candle.isFinal
        THEN /\ inbox' = boxes1
             /\ published' = pub1
             /\ UNCHANGED <<ohlc, lastSignal, appended>>
        ELSE
          LET pushed == pushAndShift(ohlc, candle)
          IN /\ ohlc' = pushed
             /\ appended' = Append(appended, candle)
             /\ IF analyzeThrows(pushed)
                \* the TypeError is caught at line 172: nothing after line 167 runs
                THEN /\ inbox' = boxes1
                     /\ published' = pub1
                     /\ UNCHANGED lastSignal
                ELSE
                  LET result == analyzeAndSignal(pushed)
                      sig == result @@ [symbol |-> SYMBOL, ts |-> clock + 1]
                  IN /\ lastSignal' = sig
                     /\ inbox' = broadcast(boxes1, "signal", sig)
                     /\ published' = Append(pub1, Envelope("signal", sig))
     /\ UNCHANGED <<sockets, binanceSocket, timers, clients, response>>

\* binanceSocket.on("message"): frames reach the handlers of an OPEN socket
OnMessage(s, frame) ==
  /\ sockets[s].state = "OPEN"
  /\ clock' = clock + 1
  /\ lastEvent' = [op |-> "message", socket |-> s, frame |-> frame]
  /\ IF parseThrows(frame) \/ noCandle(frame)
     THEN DiscardFrame(s, frame)
     ELSE HandleCandle(s, frame)

\* binanceSocket.on("open"): logs
OnOpen(s) ==
  /\ sockets[s].state = "CONNECTING"
  /\ sockets' = [sockets EXCEPT ![s].state = "OPEN"]
  /\ lastEvent' = [op |-> "open", socket |-> s]
  /\ UNCHANGED <<ohlc, lastSignal, binanceSocket, timers, clients, inbox,
                 response, clock, published, appended>>

\* faulty variant: back-off, the delay grows with the attempt
scheduleBackoff(pending, attempt) ==
  Append(pending, [delay |-> ReconnectDelay * attempt])

\* faulty variant: an attempt counter that stops the retry loop
scheduleCapped(pending, attempt) ==
  IF attempt < 2 THEN Append(pending, [delay |-> ReconnectDelay]) ELSE pending

\* setTimeout(connectBinance, 3000): the same delay whatever the attempt
scheduleReconnect(pending, attempt) ==
  Append(pending, [delay |-> ReconnectDelay])

\* binanceSocket.on("close"): the socket is CLOSED when 'close' is emitted
OnClose(s) ==
  /\ sockets[s].state \in {"OPEN", "CLOSING"}
  /\ sockets' = [sockets EXCEPT ![s].state = "CLOSED"]
  /\ timers' = scheduleReconnect(timers, Len(sockets))
  /\ lastEvent' = [op |-> "close", socket |-> s]
  /\ UNCHANGED <<ohlc, lastSignal, binanceSocket, clients, inbox, response,
                 clock, published, appended>>

\* WebSocket.prototype.terminate of ws: nothing on a CLOSED socket, otherwise
\* the handshake is aborted or the TCP socket destroyed; 'close' follows
terminate(socks, b) ==
  IF socks[b].state = "CLOSED" THEN socks
  ELSE [socks EXCEPT ![b].state = "CLOSING"]

\* faulty variant: the error handler schedules a reconnect of its own
OnErrorReconnects(s) ==
  /\ sockets[s].state \in {"CONNECTING", "OPEN"}
  /\ sockets' = terminate([sockets EXCEPT ![s].state = "CLOSING"], binanceSocket)
  /\ timers' = Append(timers, [delay |-> ReconnectDelay])
  /\ lastEvent' = [op |-> "error", socket |-> s]
  /\ UNCHANGED <<ohlc, lastSignal, binanceSocket, clients, inbox,
                 response, clock, published, appended>>

\* binanceSocket.on("error"): ws has left OPEN / CONNECTING when it emits
\* 'error'; the handler terminates the socket the global names
OnError(s) ==
  /\ sockets[s].state \in {"CONNECTING", "OPEN"}
  /\ sockets' = terminate([sockets EXCEPT ![s].state = "CLOSING"], binanceSocket)
  /\ lastEvent' = [op |-> "error", socket |-> s]
  /\ UNCHANGED <<ohlc, lastSignal, binanceSocket, timers, clients, inbox,
                 response, clock, published, appended>>

\* function connectBinance(): a new socket, which the global now names
connectBinance(socks) == Append(socks, [state |-> "CONNECTING"])

\* the oldest pending timer fires and calls connectBinance
TimerFire ==
  /\ timers # <<>>
  /\ Len(sockets) < MaxConnections
  /\ timers' = Tail(timers)
  /\ sockets' = connectBinance(sockets)
  /\ binanceSocket' = Len(sockets) + 1
  /\ lastEvent' = [op |-> "timer", delay |-> Head(timers).delay]
  /\ UNCHANGED <<ohlc, lastSignal, clients, inbox, response, clock, published,
                 appended>>

(***************************************************************************)
(* Inputs.                                                                 *)
(***************************************************************************)
Closes == {10050}

MalformedFrames ==
  {[kind |-> "garbage"], [kind |-> "null"], [kind |-> "nok"]}

KlineFrames(closeSet, finals) ==
  {[kind |-> "kline", t |-> clock + 1, c |-> c, x |-> x] :
     c \in closeSet, x \in finals}

\* a candle of a bulk array of n candles: open times -n .. -1
BulkCandle(j, n) ==
  [t |-> j - (n + 1), close |-> 10000 + 10 * ((j * 7) % 5), isFinal |-> TRUE]

BulkArray(n) == [j \in 1..n |-> BulkCandle(j, n)]

ArrayBody(items) == [isArray |-> TRUE, items |-> items]

ObjectBody == [isArray |-> FALSE, items |-> <<>>]

\* bulk arrays around the capacity
BigBodies ==
  {ObjectBody} \cup
  {ArrayBody(BulkArray(n)) :
     n \in {0, OverwriteKeep - 1, OverwriteKeep, OverwriteKeep + 1,
            OverwriteKeep + 2}}

SmallBodies ==
  {ObjectBody, ArrayBody(BulkArray(2)), ArrayBody(<<Null>>)}

(***************************************************************************)
(* The system.                                                             *)
(***************************************************************************)
\* the state once index.js has been loaded: connectBinance() ran (line 189)
Init ==
  /\ ohlc = <<>>
  /\ lastSignal = Null
  /\ sockets = connectBinance(<<>>)
  /\ binanceSocket = 1
  /\ timers = <<>>
  /\ clients = [c \in Clients |-> "NONE"]
  /\ inbox = [c \in Clients |-> <<>>]
  /\ response = Null
  /\ clock = 0
  /\ published = <<>>
  /\ appended = <<>>
  /\ lastEvent = [op |-> "load"]

Upstream ==
  \E s \in 1..Len(sockets) : OnOpen(s) \/ OnError(s) \/ OnClose(s)

Feed ==
  /\ clock < MaxFrames
  /\ \E s \in 1..Len(sockets) :
       \E f \in MalformedFrames \cup KlineFrames(Closes, BOOLEAN) : OnMessage(s, f)

Subscribers ==
  \E c \in Clients : OnConnection(c) \/ ClientClosing(c) \/ ClientClosed(c)

Http == \E b \in SmallBodies : PushOhlc(b)

Next == Upstream \/ TimerFire \/ Feed \/ Subscribers \/ Http

Spec == Init /\ [][Next]_vars

(***************************************************************************)
(* The candle history alone: frames and bulk overwrites around capacity.   *)
(***************************************************************************)
HistoryNext ==
  \/ \E s \in 1..Len(sockets) : OnOpen(s)
  \/ Feed
  \/ \E b \in BigBodies : PushOhlc(b)

HistorySpec == Init /\ [][HistoryNext]_vars

(***************************************************************************)
(* The streaming path alone: closed candles only, past the capacity.       *)
(***************************************************************************)
FifoFeed ==
  /\ clock < MaxAppends
  /\ \E s \in 1..Len(sockets) :
       \E f \in KlineFrames(Closes, {TRUE}) : OnMessage(s, f)

FifoNext ==
  \/ \E s \in 1..Len(sockets) : OnOpen(s)
  \/ FifoFeed

FifoSpec == Init /\ [][FifoNext]_vars

(***************************************************************************)
(* The analysis alone: the history starts as some close series (as after a *)
(* bulk overwrite, upstream open) and closed or open candles arrive.       *)
(***************************************************************************)
\* the candles of a close series, open times -n .. -1
CandlesOf(closes) ==
  [j \in 1..Len(closes) |->
     [t |-> j - (Len(closes) + 1), close |-> closes[j], isFinal |-> TRUE]]

\* plain series of n closes
ShapeSeries(shape, n) ==
  [j \in 1..n |->
     CASE shape = "flat" -> 10000
       [] shape = "up" -> 9000 + 40 * j
       [] shape = "down" -> 11000 - 40 * j
       [] shape = "zig" -> 10000 + 100 * ((j % 3) - 1)]

\* n closes: flat at base, one jump, then a drift of drift per candle
JumpSeries(base, jump, drift, n) ==
  [j \in 1..n |-> IF j <= 2 THEN base ELSE base + jump + drift * (j - 3)]

\* series on which an EMA cross meets a low RSI at the next candle
CrossSeriesA ==
  <<10000, 9950, 10000, 9950, 9940, 9640, 9440, 9340, 9140, 9040, 9000, 9000,
    9010, 9020, 9020, 9070, 9370, 9420, 9420, 9620, 9610, 9600, 9610>>

CrossSeriesB ==
  <<10000, 9800, 9790, 9490, 9190, 9190, 9000, 9010, 9000, 9000, 9000, 9200,
    9100, 9090, 9000, 9000, 9050, 9000, 9000, 9200, 9100, 9400, 9500, 9510>>

CrossSeriesC ==
  <<10000, 9700, 9710, 9410, 9610, 9310, 9300, 9000, 9100, 9150, 9200, 9000,
    9000, 9000, 9000, 9200, 9250, 9050, 9350, 9350, 9450, 9500, 9600>>

SignalSeries ==
  {ShapeSeries(shape, n) :
     shape \in {"flat", "up", "down", "zig"}, n \in 0..(emaLongLen + 3)}
  \cup {JumpSeries(9000, 3000, 0 - 1, n) : n \in {66, 67}}
  \cup {JumpSeries(9000, 3000, 0 - 2, n) : n \in {59, 60}}
  \cup {JumpSeries(15000, 0 - 3000, 1, n) : n \in {66, 67}}
  \cup {JumpSeries(9000, 2000, 0 - 33, 27)}
  \cup {CrossSeriesA, CrossSeriesB, CrossSeriesC}

\* the feed quotes a close near the last one
NearCloses ==
  LET last == IF ohlc = <<>> THEN 10000 ELSE ohlc[Len(ohlc)].close
  IN {last + e : e \in {0 - 100, 0 - 10, 0 - 2, 0 - 1, 1, 2}}

SignalInit ==
  /\ \E closes \in SignalSeries :
       /\ ohlc = CandlesOf(closes)
       /\ response = [status |-> 200, ok |-> TRUE, count |-> Len(closes)]
       /\ lastEvent = [op |-> "pushOhlc", body |-> ArrayBody(CandlesOf(closes))]
  /\ lastSignal = Null
  /\ sockets = <<[state |-> "OPEN"]>>
  /\ binanceSocket = 1
  /\ timers = <<>>
  /\ clients = [c \in Clients |-> "NONE"]
  /\ inbox = [c \in Clients |-> <<>>]
  /\ clock = 0
  /\ published = <<>>
  /\ appended = <<>>

SignalFeed ==
  /\ clock < MaxFrames
  /\ \E f \in KlineFrames(NearCloses, BOOLEAN) : OnMessage(1, f)

SignalSpec == SignalInit /\ [][SignalFeed]_vars

(***************************************************************************)
(* The feed connector with Node's scheduling: a pending timer fires, and   *)
(* a socket that has been terminated emits 'close'.                        *)
(***************************************************************************)
ClosePending(s) ==
  /\ s <= Len(sockets)
  /\ sockets[s].state = "CLOSING"
  /\ OnClose(s)

LiveNext == Upstream \/ TimerFire \/ Feed

LiveSpec ==
  /\ Init
  /\ [][LiveNext]_vars
  /\ WF_vars(TimerFire)
  /\ \A s \in 1..MaxConnections : WF_vars(ClosePending(s))

(***************************************************************************)
(* Claims.                                                                 *)
(***************************************************************************)
IsPrefix(a, b) == Len(a) <= Len(b) /\ SubSeq(b, 1, Len(a)) = a

\* the envelopes broadcast() serialized during the step
Issued == SubSeq(published', Len(published) + 1, Len(published'))

StatusEvent == [type |-> "status", data |-> "connected"]

C3_OneReconnectPerFailure ==
  LET closed == {s \in 1..Len(sockets) : sockets[s].state = "CLOSED"}
  IN /\ Len(timers) + (Len(sockets) - 1) = Cardinality(closed)
     /\ \A j \in 1..Len(timers) : timers[j].delay = 3000
     /\ lastEvent.op = "timer" => lastEvent.delay = 3000

\* two failures, two reconnects made
C3_Witness ==
  /\ Len(sockets) = 3
  /\ sockets[1].state = "CLOSED" /\ sockets[2].state = "CLOSED"
  /\ sockets[3].state = "CONNECTING"
  /\ timers = <<>>

\* C4: whenever the newest upstream socket has errored or closed, a new
\* connection attempt follows, however many failures came before (up to
\* the model's bound on attempts).
C4_ReconnectEventually ==
  \A n \in 1..(MaxConnections - 1) :
    (Len(sockets) = n /\ sockets[n].state \in {"CLOSING", "CLOSED"})
      ~> (Len(sockets) > n)

\* the second failure has been followed by a third attempt
C4_Witness ==
  /\ Len(sockets) = 3
  /\ sockets[2].state = "CLOSED"
  /\ lastEvent.op = "timer"

\* C5: a session that connects is sent the last signal (exactly that
\* payload) and then the status event when a last signal exists, the status
\* event alone otherwise; whatever it is sent later comes after these.
C5_CatchUpFirst ==
  [][\A c \in Clients :
       /\ (clients[c] = "NONE" /\ clients'[c] = "OPEN") =>
            inbox'[c] = IF lastSignal = Null
                        THEN <<StatusEvent>>
                        ELSE <<[type |-> "signal", data |-> lastSignal],
                               StatusEvent>>
       /\ clients[c] # "NONE" => IsPrefix(inbox[c], inbox'[c])]_vars

\* a session joined after a signal and has since been sent a later signal
C5_Witness ==
  \E c \in Clients :
    /\ Len(inbox[c]) >= 4
    /\ inbox[c][1].type = "signal"
    /\ inbox[c][2] = StatusEvent
    /\ inbox[c][4].type = "signal"
    /\ inbox[c][4].data.ts > inbox[c][1].data.ts

\* C6: every envelope published in a step is sent exactly once to each
\* session that is open when it is published and to no other session; a
\* session that is not open is sent nothing then or later, and a session
\* that opens is sent no price event from before.
C6_PublishToOpenOnly ==
  [][\A c \in Clients :
       IF clients[c] = "OPEN" THEN inbox'[c] = inbox[c] \o Issued
       ELSE IF clients[c] = "NONE"
       THEN \A j \in 1..Len(inbox'[c]) : inbox'[c][j].type # "price"
       ELSE inbox'[c] = inbox[c]]_vars

\* a price event reached the open session and not the closing one
C6_Witness ==
  \E c, d \in Clients :
    /\ clients[c] = "OPEN" /\ clients[d] = "CLOSING"
    /\ lastEvent.op = "message" /\ published # <<>>
    /\ published[Len(published)].type = "price"
    /\ inbox[c][Len(inbox[c])] = published[Len(published)]
    /\ inbox[d][Len(inbox[d])].type = "status"

C8_InvalidOverwriteRejected ==
  [][(lastEvent'.op = "pushOhlc" /\ ~lastEvent'.body.isArray)
       => /\ response'.status = 400
          /\ UNCHANGED <<ohlc, lastSignal>>]_vars

\* a payload was rejected while a history and a last signal existed
C8_Witness ==
  /\ lastEvent.op = "pushOhlc" /\ ~lastEvent.body.isArray
  /\ response.status = 400
  /\ ohlc # <<>> /\ lastSignal # Null

\* C9: a well-formed frame publishes exactly one price event; if its
\* final-candle flag is set it also appends its candle to the history once
\* and publishes exactly one signal event after the price event; if the
\* flag is not set it publishes no signal event and appends nothing.
C9_FrameEvents ==
  [][(lastEvent'.op = "message" /\ lastEvent'.frame.kind = "kline") =>
       LET f == lastEvent'.frame
           candle == [t |-> f.t, close |-> f.c, isFinal |-> f.x]
           priceEvent == [type |-> "price",
                          data |-> [t |-> f.t, close |-> f.c]]
       IN IF f.x
          THEN /\ Len(Issued) = 2
               /\ Issued[1] = priceEvent
               /\ Issued[2].type = "signal"
               /\ appended' = Append(appended, candle)
               /\ ohlc' # <<>> /\ ohlc'[Len(ohlc')] = candle
               /\ Len(ohlc') = Min(Len(ohlc) + 1, AppendCap)
          ELSE /\ Issued = <<priceEvent>>
               /\ ohlc' = ohlc]_vars

\* C10: when the last index i of the close series is at most 21 (22
\* candles or fewer once the closed candle is appended) the signal is HOLD
\* with reason "not enough data", whatever the prices; BUY and SELL occur
\* only when i > 21.
C10_NotEnoughData ==
  (lastEvent.op = "message" /\ lastEvent.frame.x) =>
    LET i == Len(ohlc) - 1
    IN /\ lastSignal # Null /\ lastSignal.ts = clock
       /\ i <= 21 => /\ lastSignal.signal = "HOLD"
                      /\ lastSignal.reason = <<"not enough data">>
       /\ lastSignal.signal \in {"BUY", "SELL"} => i > 21

\* a closed candle made the last index exactly 21, on a series that moves
C10_Witness ==
  /\ lastEvent.op = "message" /\ lastEvent.frame.x
  /\ Len(ohlc) = 22
  /\ ohlc[1].close # ohlc[2].close
  /\ lastSignal.reason = <<"not enough data">>

\* the indicators at the last index of the history, as a closed candle's
\* analysis sees them
HistoryCloses == [j \in 1..Len(ohlc) |-> ohlc[j].close]

RawRsiAtLast == rsi(HistoryCloses)[Len(ohlc)].value

EmaGapAtLast(n) ==
  ema(HistoryCloses, emaShortLen)[n] - ema(HistoryCloses, emaLongLen)[n]

CrossedUpAtLast ==
  EmaGapAtLast(Len(ohlc) - 1) <= 0 /\ EmaGapAtLast(Len(ohlc)) > 0

CrossedDownAtLast ==
  EmaGapAtLast(Len(ohlc) - 1) >= 0 /\ EmaGapAtLast(Len(ohlc)) < 0

\* the last signal is a decision taken with enough data
Decided == lastSignal # Null /\ Len(ohlc) - 1 > emaLongLen

\* C11 as stated: with enough data the decision is BUY exactly on an up
\* cross with the computed RSI below 45, SELL exactly on a down cross with
\* the computed RSI above 65, HOLD otherwise (RSI in hundredths).
C11_RawThreshold ==
  Decided =>
    lastSignal.signal =
      IF CrossedUpAtLast /\ RawRsiAtLast < 45 * 100 THEN "BUY"
      ELSE IF CrossedDownAtLast /\ RawRsiAtLast > 65 * 100 THEN "SELL"
      ELSE "HOLD"

\* C11 amended: the thresholds apply to the RSI rounded to the nearest whole
\* number: BUY exactly on an up cross with RSI below 44.5, SELL exactly on
\* a down cross with RSI at least 65.5, HOLD otherwise.
C11_RoundedThreshold ==
  Decided =>
    lastSignal.signal =
      IF CrossedUpAtLast /\ RawRsiAtLast < 4450 THEN "BUY"
      ELSE IF CrossedDownAtLast /\ RawRsiAtLast >= 6550 THEN "SELL"
      ELSE "HOLD"

\* an up cross with an RSI between 44.5 and 45 was decided HOLD
C11_Witness ==
  /\ Decided
  /\ CrossedUpAtLast
  /\ RawRsiAtLast >= 4450 /\ RawRsiAtLast < 45 * 100
  /\ lastSignal.signal = "HOLD" /\ lastSignal.rsi = 45

\* C12: every BUY signal has stopLoss < entry < takeProfit and every SELL
\* signal has takeProfit < entry < stopLoss, strictly, however small the
\* gap between the two EMAs is.
C12_StrictBrackets ==
  /\ (lastSignal # Null /\ lastSignal.signal = "BUY") =>
       /\ lastSignal.stopLoss < lastSignal.entry
       /\ lastSignal.entry < lastSignal.takeProfit
  /\ (lastSignal # Null /\ lastSignal.signal = "SELL") =>
       /\ lastSignal.takeProfit < lastSignal.entry
       /\ lastSignal.entry < lastSignal.stopLoss

\* a closed candle has just been analysed (rsi is called at line 82)
Analysed == lastEvent.op = "message" /\ lastEvent.frame.x

\* C13 as stated: the RSI series is as long as the close series and is null
\* at every index i <= 14, index 14 included; it is defined only at i > 14
\* (index i of the code is position i + 1 here).
C13_NullThroughPeriod ==
  LET out == rsi(HistoryCloses)
  IN Analysed =>
     /\ Len(out) = Len(ohlc)
     /\ \A j \in 1..Len(out) : (out[j] = Null) <=> (j - 1 <= rsiPeriod)

\* C13 amended: the RSI series is as long as the close series; it is null
\* at every index i < 14, and everywhere when the series has 14 closes or
\* fewer; otherwise it is defined at every index i >= 14, index 14 holding
\* the value of the seed averages.
C13_NullBelowPeriod ==
  LET out == rsi(HistoryCloses)
  IN Analysed =>
     /\ Len(out) = Len(ohlc)
     /\ \A j \in 1..Len(out) :
          (out[j] = Null) <=> (j - 1 < 14 \/ Len(ohlc) <= 14)

\* a series longer than the period: index 14 is defined, index 13 is not
C13_Witness ==
  LET out == rsi(HistoryCloses)
  IN /\ Analysed
     /\ Len(ohlc) > rsiPeriod + 1
     /\ out[rsiPeriod] = Null
     /\ out[rsiPeriod + 1] # Null
     /\ out[rsiPeriod + 1].value = 100 * 100
     /\ out[Len(ohlc)] # Null

Stamp(e) == IF e.type = "price" THEN e.data.t ELSE e.data.ts

\* the place of an envelope in the order of issue
Pos(e) == CHOOSE k \in 1..Len(published) : published[k] = e

\* what a session was sent, the status event left out
Delivered(c) == SelectSeq(inbox[c], LAMBDA e : e.type # "status")

\* C15: closed candles are appended, and events issued, in the order the
\* frames arrived (the price event of a frame before its signal event),
\* and every session is sent the events it gets in the order of issue, so
\* no two sessions see the same two events in opposite orders.
C15_IssueOrder ==
  /\ \A i, j \in 1..Len(appended) : i < j => appended[i].t < appended[j].t
  /\ \A i, j \in 1..Len(published) :
       i < j => /\ published[i] # published[j]
                /\ Stamp(published[i]) <= Stamp(published[j])
                /\ Stamp(published[i]) = Stamp(published[j])
                     => published[i].type = "price"
  /\ \A c \in Clients :
       LET d == Delivered(c)
       IN /\ \A i \in 1..Len(d) : \E k \in 1..Len(published) : published[k] = d[i]
          /\ \A i, j \in 1..Len(d) : i < j => Pos(d[i]) < Pos(d[j])

\* two sessions were both sent the same two events, one of them a signal
C15_Witness ==
  /\ Len(published) >= 3
  /\ \E c, d \in Clients :
       /\ c # d
       /\ \E i, j \in 1..Len(published) :
            /\ i < j
            /\ published[i].type = "signal"
            /\ \E k \in 1..Len(inbox[c]) : inbox[c][k] = published[i]
            /\ \E k \in 1..Len(inbox[c]) : inbox[c][k] = published[j]
            /\ inbox[d] # <<>> /\ inbox[d][1] = published[i]
            /\ \E k \in 1..Len(inbox[d]) : inbox[d][k] = published[j]

\* C16: a bulk overwrite with an array replaces the whole history by the
\* newest 500 entries of the array, in the given order; a closed candle
\* that arrives afterwards is appended to that history, and the signal it
\* brings is the decision over that history with the candle appended.
C16_OverwriteThenAppend ==
  [][/\ (lastEvent'.op = "pushOhlc" /\ lastEvent'.body.isArray) =>
          LET items == lastEvent'.body.items
              n == Len(items)
              m == IF n < 500 THEN n ELSE 500
          IN /\ Len(ohlc') = m
             /\ \A j \in 1..m : ohlc'[j] = items[n - m + j]
     /\ (lastEvent'.op = "message" /\ lastEvent'.frame.kind = "kline"
           /\ lastEvent'.frame.x /\ lastEvent.op = "pushOhlc"
           /\ lastEvent.body.isArray) =>
          LET f == lastEvent'.frame
              candle == [t |-> f.t, close |-> f.c, isFinal |-> f.x]
          IN /\ ohlc' = IF Len(ohlc) < 500 THEN ohlc \o <<candle>>
                        ELSE Tail(ohlc) \o <<candle>>
             /\ ~analyzeThrows(ohlc')
             /\ lastSignal' # Null
             /\ lastSignal'.ts = clock'
             /\ lastSignal'.signal = analyzeAndSignal(ohlc').signal
             /\ Issued # <<>>
             /\ Issued[Len(Issued)] = [type |-> "signal", data |-> lastSignal']
    ]_vars

\* the upstream sockets in the given states
SocketsIn(states) == {s \in 1..Len(sockets) : sockets[s].state \in states}

\* C17 as stated: in every state there is exactly one upstream connection
\* effort, either one socket that is connecting or open or one pending
\* reconnect timer: never two such sockets, never two timers, never a
\* socket together with a timer.
C17_OneEffortAlive ==
  Cardinality(SocketsIn({"CONNECTING", "OPEN"})) + Len(timers) = 1

\* C17 amended: the one effort is a socket that has not closed yet
\* (connecting, open, or closing with its close event still to come), which
\* is the socket binanceSocket names, or one pending reconnect timer.
C17_OneEffortNotClosed ==
  LET live == SocketsIn({"CONNECTING", "OPEN", "CLOSING"})
  IN /\ Cardinality(live) <= 1
     /\ Len(timers) <= 1
     /\ (live = {}) <=> (Len(timers) = 1)
     /\ live \subseteq {binanceSocket}

\* the second socket has failed and waits for its close event: no socket is
\* connecting or open and no timer is pending
C17_Witness ==
  /\ Len(sockets) = 2
  /\ sockets[1].state = "CLOSED" /\ sockets[2].state = "CLOSING"
  /\ timers = <<>>
  /\ lastEvent = [op |-> "error", socket |-> 2]

\* the payload of the signal event published last, null when there is none
LastPublishedSignal(pub) ==
  LET sigs == SelectSeq(pub, LAMBDA e : e.type = "signal")
  IN IF sigs = <<>> THEN Null ELSE sigs[Len(sigs)].data

\* the step handles a frame that carries a closed candle
ClosedCandleStep ==
  /\ lastEvent'.op = "message"
  /\ lastEvent'.frame.kind = "kline"
  /\ lastEvent'.frame.x

\* C18: the last signal is written by the closed-candle path only: every
\* closed candle replaces it by the decision for that candle, no other step
\* changes it, it never becomes empty again, and it is always the payload
\* of the signal event published last (empty before the first); steps other
\* than a closed candle and a bulk overwrite leave the history unchanged.
C18_LastSignalWriter ==
  [][/\ IF ClosedCandleStep
        THEN lastSignal' # Null /\ lastSignal'.ts = clock'
        ELSE lastSignal' = lastSignal
     /\ lastSignal # Null => lastSignal' # Null
     /\ lastSignal = LastPublishedSignal(published)
     /\ lastSignal' = LastPublishedSignal(published')
     /\ (~ClosedCandleStep /\ lastEvent'.op # "pushOhlc") => ohlc' = ohlc
    ]_vars

\* C19: a bulk overwrite, accepted or rejected, leaves the last signal as
\* it was and sends nothing to any session; a session that connects is
\* handed the signal published last, whatever overwrites came since.
C19_OverwriteKeepsSignal ==
  [][/\ lastEvent'.op = "pushOhlc" =>
          /\ lastSignal' = lastSignal
          /\ published' = published
          /\ inbox' = inbox
     /\ \A c \in Clients :
          (lastEvent' = [op |-> "connection", client |-> c]
             /\ LastPublishedSignal(published) # Null) =>
            /\ inbox'[c] # <<>>
            /\ inbox'[c][1] = [type |-> "signal",
                               data |-> LastPublishedSignal(published)]
    ]_vars

\* a session connected after an accepted overwrite and was handed
\* the signal of the closed candle that came before the overwrite
C19_Witness ==
  /\ lastEvent.op = "connection"
  /\ response # Null /\ response.status = 200
  /\ appended = <<>>
  /\ lastSignal # Null
  /\ \A j \in 1..Len(ohlc) : ohlc[j] = Null \/ ohlc[j].t # lastSignal.ts
  /\ inbox[lastEvent.client][1] = [type |-> "signal", data |-> lastSignal]

====
